---- MODULE Spec2Model ----
(***************************************************************************)
(* Model of the Google-Sheets foreign data wrapper of src/src/lib.rs: the  *)
(* singleton SpreadsheetsFdw (base_url, src_rows, src_idx) and the Guest   *)
(* routines init, begin_scan, iter_scan, re_scan, end_scan, begin_modify,  *)
(* insert, update, delete, end_modify that the host calls one at a time.   *)
(***************************************************************************)
EXTENDS Integers, Sequences, FiniteSets, TLC

VARIABLES
    this,   \* the singleton behind the static pointer: NullPtr or the struct
    call,   \* the last routine call: its name, its columns, what it returned
    row,    \* the host's target Row the last iter_scan pushed cells into
    io,     \* what the last routine call did outside the struct (HTTP, parse, info)
    scan    \* the host's log of the scan it has open (what it was handed)

vars == <<this, call, row, io, scan>>

-----------------------------------------------------------------------------
(* Bounds of the model.                                                    *)

\* rows in a fetched document
MaxRows == 2
\* cells in a source row of the row-mapper specification
MaxCells == 2
\* largest ordinal position in a column schema
MaxCol == 2
\* decimal cell values range over -4.5 .. 4.5 in steps of 0.1
MaxTenths == 45
\* integer cell values range over 2^53 .. 2^53 + MaxOff
MaxOff == 3

-----------------------------------------------------------------------------
(* Option<T>.                                                              *)

None == [some |-> FALSE]
Some(x) == [some |-> TRUE, v |-> x]

-----------------------------------------------------------------------------
(* 64-bit numbers.  A magnitude is hi * 2^53 + lo (integers) or            *)
(* hi * 2^53 + tenths / 10 (doubles), with a sign bit; hi is 0 or 1, so    *)
(* every value lies inside the i64 range and the cast never saturates.     *)
(* A double with hi = 0 stands for the double nearest to tenths / 10; in   *)
(* that range the nearest double of a one-digit decimal never reaches the  *)
(* next integer, so its integer part is tenths \div 10.  A double with     *)
(* hi = 1 lies in [2^53, 2^54), where doubles are the even integers.       *)

Int64(neg, hi, lo) == [neg |-> neg /\ (hi > 0 \/ lo > 0), hi |-> hi, lo |-> lo]
F64(neg, hi, tenths) == [neg |-> neg, hi |-> hi, tenths |-> tenths]

\* serde_json::Number: an integer literal is kept as an integer (PosInt/NegInt),
\* a literal with a fraction as the nearest double (Float).
NInt(neg, hi, lo) == [k |-> "Int", neg |-> neg, hi |-> hi, lo |-> lo]
NFloat(neg, tenths) == [k |-> "Float", neg |-> neg, hi |-> 0, tenths |-> tenths]

\* spacing of the doubles in [hi * 2^53, 2 * hi * 2^53), hi a power of two
Ulp(hi) == 2 * hi

\* a conversion that keeps every integer as it is
IntAsF64Exact(neg, hi, lo) == F64(neg, hi, 10 * lo)

\* u64/i64 `as f64`: exact below 2^53, round to nearest (ties to even) above
IntAsF64(neg, hi, lo) ==
    IF hi = 0 THEN F64(neg, 0, 10 * lo)
    ELSE LET u == Ulp(hi)
             q == lo \div u
             r == lo % u
             m == IF 2 * r < u THEN q
                  ELSE IF 2 * r > u THEN q + 1
                  ELSE IF q % 2 = 0 THEN q ELSE q + 1
         IN  F64(neg, hi, 10 * m * u)

\* Number::as_f64 (total on numbers)
NumberAsF64(n) ==
    IF n.k = "Int" THEN IntAsF64(n.neg, n.hi, n.lo)
    ELSE F64(n.neg, n.hi, n.tenths)

\* a cast that rounds towards minus infinity
CastFloor(f) ==
    IF f.neg /\ f.tenths % 10 # 0
    THEN Int64(TRUE, f.hi, f.tenths \div 10 + 1)
    ELSE Int64(f.neg, f.hi, f.tenths \div 10)

\* a cast that rounds to the nearest integer
CastRound(f) == Int64(f.neg, f.hi, (f.tenths + 5) \div 10)

\* `v as i64` on a double inside the i64 range: the fraction is dropped
F64AsI64(f) == Int64(f.neg, f.hi, f.tenths \div 10)

-----------------------------------------------------------------------------
(* serde_json::Value.                                                      *)

JNull == [t |-> "null"]
JBool(b) == [t |-> "bool", b |-> b]
JNum(n) == [t |-> "num", n |-> n]
JStr(s) == [t |-> "str", s |-> s]
JArr(a) == [t |-> "arr", a |-> a]
JObj(o) == [t |-> "obj", o |-> o]

\* Value::as_f64
as_f64(v) == IF v.t = "num" THEN Some(NumberAsF64(v.n)) ELSE None

\* Value::as_str
as_str(v) == IF v.t = "str" THEN Some(v.s) ELSE None

\* Value::as_array
as_array(v) == IF v.t = "arr" THEN Some(v.a) ELSE None

\* one step of Value::pointer: a key of an object, or a decimal index of an array
PointerStep(v, tok) ==
    IF v.t = "obj"
    THEN IF tok \in DOMAIN v.o THEN Some(v.o[tok]) ELSE None
    ELSE IF v.t = "arr"
    THEN IF \E i \in 1..Len(v.a) : ToString(i - 1) = tok
         THEN Some(v.a[CHOOSE i \in 1..Len(v.a) : ToString(i - 1) = tok])
         ELSE None
    ELSE None

\* Value::pointer on the path "/tok1/tok2/..."
RECURSIVE pointer(_, _)
pointer(v, toks) ==
    IF toks = <<>> THEN Some(v)
    ELSE LET step == PointerStep(v, Head(toks))
         IN  IF step.some THEN pointer(step.v, Tail(toks)) ELSE None

-----------------------------------------------------------------------------
(* The host's column schema (ctx.get_columns()) and target cells.          *)

TypeOids == {"I64", "String", "Bool"}

ColNames == <<"id", "name", "flag", "note", "extra", "more">>

Column(num, type_oid) == [num |-> num, name |-> ColNames[num], type_oid |-> type_oid]

Columns == {Column(n, ty) : n \in 1..MaxCol, ty \in TypeOids}

\* every order of every subset of the ordinal positions, every type each
Schemas ==
    UNION {{s \in [1..k -> Columns] :
               \A i, j \in 1..k : i # j => s[i].num # s[j].num} : k \in 0..MaxCol}

\* the schemas of the scans of the protocol specification: the two columns of
\* the sheet, a count(*) without columns, and tables with a boolean column
SampleSchemas ==
    {<<Column(1, "I64"), Column(2, "String")>>,
     <<>>,
     <<Column(2, "Bool")>>,
     <<Column(1, "String"), Column(2, "Bool")>>}

CellI64(i) == [t |-> "I64", i |-> i]
CellString(s) == [t |-> "String", s |-> s]

Ok(x) == [ok |-> TRUE, v |-> x]
Err(msg) == [ok |-> FALSE, msg |-> msg]

-----------------------------------------------------------------------------
(* iter_scan, lines 157-179: one source row onto the target columns.       *)

\* a path that takes the ordinal position for the array index
CellPathOneBased(num) == <<"c", ToString(num), "v">>

\* the path format!("/c/{}/v", tgt_col_num - 1)
CellPath(num) == <<"c", ToString(num - 1), "v">>

\* a match that rejects a cell of the wrong scalar shape
ConvertStrict(tgt_col, src) ==
    CASE tgt_col.type_oid = "I64" ->
            LET f == as_f64(src)
            IN  IF f.some THEN Ok(Some(CellI64(F64AsI64(f.v))))
                ELSE Err(<<"column ", tgt_col.name, " is not a number">>)
      [] tgt_col.type_oid = "String" ->
            LET s == as_str(src)
            IN  IF s.some THEN Ok(Some(CellString(s.v)))
                ELSE Err(<<"column ", tgt_col.name, " is not a string">>)
      [] OTHER -> Err(<<"column ", tgt_col.name, " data type is not supported">>)

\* the match on tgt_col.type_oid(), lines 164-173
Convert(tgt_col, src) ==
    CASE tgt_col.type_oid = "I64" ->
            LET f == as_f64(src)
            IN  Ok(IF f.some THEN Some(CellI64(F64AsI64(f.v))) ELSE None)
      [] tgt_col.type_oid = "String" ->
            LET s == as_str(src)
            IN  Ok(IF s.some THEN Some(CellString(s.v)) ELSE None)
      [] OTHER -> Err(<<"column ", tgt_col.name, " data type is not supported">>)

\* a loop body that looks at the column type before it looks for the cell
MapCellTypeFirst(src_row, tgt_col) ==
    LET src == pointer(src_row, CellPath(tgt_col.num))
    IN  IF tgt_col.type_oid \notin {"I64", "String"}
        THEN Err(<<"column ", tgt_col.name, " data type is not supported">>)
        ELSE IF src.some THEN Convert(tgt_col, src.v) ELSE Ok(None)

\* a loop body that treats a null value like a missing cell
MapCellNullAbsent(src_row, tgt_col) ==
    LET src == pointer(src_row, CellPath(tgt_col.num))
    IN  IF src.some /\ src.v # JNull THEN Convert(tgt_col, src.v) ELSE Ok(None)

\* the body of the for loop, lines 160-178: the cell to push, or the error
MapCell(src_row, tgt_col) ==
    LET src == pointer(src_row, CellPath(tgt_col.num))
    IN  IF src.some THEN Convert(tgt_col, src.v) ELSE Ok(None)

\* the for loop, lines 159-179: cells pushed so far, and the error that ended it
RECURSIVE MapColumns(_, _, _)
MapColumns(src_row, cols, pushed) ==
    IF cols = <<>> THEN [err |-> None, row |-> pushed]
    ELSE LET cell == MapCell(src_row, Head(cols))
         IN  IF cell.ok
             THEN MapColumns(src_row, Tail(cols), Append(pushed, cell.v))
             ELSE [err |-> Some(cell.msg), row |-> pushed]

-----------------------------------------------------------------------------
(* The singleton, lines 37-62.                                             *)

NullPtr == [null |-> TRUE]

SpreadsheetsFdw(base_url, src_rows, src_idx) ==
    [base_url |-> base_url, src_rows |-> src_rows, src_idx |-> src_idx]

\* Self::default(), line 52
Default == SpreadsheetsFdw("", <<>>, 0)

-----------------------------------------------------------------------------
(* What the host passes in and gets back.                                  *)

DefaultBaseUrl == "https://docs.google.com/spreadsheets/d"

\* the server option base_url: not given, or given
ServerOptions == {None, Some("http://localhost:8080")}

\* the table options spread_sheet_id and sheet_id: each given or not
TableOptions ==
    [spread_sheet_id : {None, Some("abc123")}, sheet_id : {None, Some("2")}]

\* Options::require_or
require_or(opt, default) == IF opt.some THEN opt.v ELSE default

\* Options::require
require(opt, key) ==
    IF opt.some THEN Ok(opt.v)
    ELSE Err(<<"required option '", key, "' is not specified">>)

\* a routine call: its name, the columns it read from its context, the index of
\* the source row it mapped (-1: none), the result it returned, and the options
\* it read from its context (none: the empty tuple)
Call(op, cols, at, res, msg) ==
    [op |-> op, cols |-> cols, at |-> at, res |-> res, msg |-> msg, opts |-> <<>>]

\* the effects of a call outside the struct: HTTP requests sent, the transport's
\* answers, the steps of decoding the response that ran, info messages reported
Io(req, resp, steps, info) ==
    [req |-> req, resp |-> resp, steps |-> steps, info |-> info]

NoIo == Io(<<>>, <<>>, <<>>, <<>>)

\* the host's log: no scan open
Closed == [open |-> FALSE, fresh |-> FALSE, n |-> 0, got |-> <<>>, done |-> FALSE]

\* the host's log: a scan opened by a begin_scan that fetched n rows; fresh
\* when no other scan was open at that begin_scan
Opened(n, fresh) ==
    [open |-> TRUE, fresh |-> fresh, n |-> n, got |-> <<>>, done |-> FALSE]

-----------------------------------------------------------------------------
(* The remote documents.                                                   *)

\* a cell object {"v": v}, {"v": v, "f": f}, {"f": f}; a row {"c": [cells]}
CellV(v) == JObj([v |-> v])
CellVF(v, f) == JObj([v |-> v, f |-> JStr(f)])
CellF(f) == JObj([f |-> JStr(f)])
SrcRow(cells) == JObj([c |-> JArr(cells)])

RowAlice == SrcRow(<<CellVF(JNum(NFloat(FALSE, 10)), "1"), CellV(JStr("Alice"))>>)
RowSparse == SrcRow(<<JNull, CellV(JBool(TRUE))>>)

\* the rows a fetched document is made of
SampleRows == {RowAlice, RowSparse}

RowArrays == UNION {[1..k -> SampleRows] : k \in 0..MaxRows}

DocRows(rows) == JObj([table |-> JObj([rows |-> JArr(rows)])])

\* documents without a row array at table.rows
DocNoRows == JObj([table |-> JObj([cols |-> JArr(<<>>)])])
DocNoTable == JObj([status |-> JStr("error")])
DocTopArray == JArr(<<JNull>>)
DocRowsString == JObj([table |-> JObj([rows |-> JStr("none")])])
DocRowsNull == JObj([table |-> JObj([rows |-> JNull])])

OddDocs == {DocNoRows, DocNoTable, DocTopArray, DocRowsString, DocRowsNull}

\* the text after the head of a body: not JSON, or the text of a JSON value
BadText == [k |-> "bad"]
JsonText(v) == [k |-> "json", v |-> v]

\* a response body: leading characters, then the text
Body(head, text) == [head |-> head, text |-> text]

PREFIX == <<")", "]", "}", "'", "\n">>

\* heads that are not the prefix: nothing, the prefix cut short, another guard
OtherHeads == {<<>>, <<")", "]", "}", "'">>, <<"/", "*", "O", "_", "o">>}

Bodies ==
    {Body(PREFIX, JsonText(DocRows(rows))) : rows \in RowArrays}
    \cup {Body(PREFIX, t) : t \in {BadText} \cup {JsonText(d) : d \in OddDocs}}
    \cup {Body(PREFIX \o <<" ">>, JsonText(DocRows(<<RowAlice>>))),
          Body(PREFIX \o <<"x">>, JsonText(DocRows(<<RowAlice>>)))}
    \cup {Body(h, t) : h \in OtherHeads,
                       t \in {BadText, JsonText(DocRows(<<RowAlice>>)),
                              JsonText(DocNoRows)}}

\* http::get: a transport failure, or a response with a body
Responses == {Err(<<"http error">>)} \cup {Ok(b) : b \in Bodies}

-----------------------------------------------------------------------------
(* begin_scan, lines 88-137.                                               *)

\* a request URL that leaves the sheet out
UrlNoGid(base_url, spread_sheet_id, sheet_id) ==
    <<base_url, "/", spread_sheet_id, "/gviz/tq?tqx=out:json">>

\* the request URL, lines 100-106
Url(base_url, spread_sheet_id, sheet_id) ==
    IF sheet_id.some
    THEN <<base_url, "/", spread_sheet_id, "/gviz/tq?gid=", sheet_id.v, "&tqx=out:json">>
    ELSE <<base_url, "/", spread_sheet_id, "/gviz/tq?tqx=out:json">>

\* the request, lines 109-121
Request(url) ==
    [method |-> "Get", url |-> url,
     headers |-> <<<<"user-agent", "Sheets FDW">>, <<"x-datasource-auth", "true">>>>,
     body |-> ""]

\* str::strip_prefix
strip_prefix(body, prefix) ==
    IF Len(body.head) >= Len(prefix) /\ SubSeq(body.head, 1, Len(prefix)) = prefix
    THEN Some(Body(SubSeq(body.head, Len(prefix) + 1, Len(body.head)), body.text))
    ELSE None

RECURSIVE SkipWhitespace(_)
SkipWhitespace(chars) ==
    IF chars # <<>> /\ Head(chars) \in {" ", "\n", "\t", "\r"}
    THEN SkipWhitespace(Tail(chars))
    ELSE chars

\* serde_json::from_str: blanks are skipped, then one JSON value is read
from_str(body) ==
    IF SkipWhitespace(body.head) # <<>> THEN Err(<<"expected value">>)
    ELSE IF body.text.k = "bad" THEN Err(<<"EOF while parsing a value">>)
    ELSE Ok(body.text.v)

Decoded(res, msg, steps, rows) ==
    [res |-> res, msg |-> msg, steps |-> steps, rows |-> rows]

\* the rows of a parsed document, lines 127-130; unwrap panics on a non-array
ExtractRows(doc, steps) ==
    LET p == pointer(doc, <<"table", "rows">>)
    IN  IF ~p.some
        THEN Decoded("err", <<"cannot get rows from response">>,
                     Append(steps, "pointer"), <<>>)
        ELSE IF ~as_array(p.v).some
        THEN Decoded("panic", <<"called Option::unwrap() on a None value">>,
                     steps \o <<"pointer", "as_array">>, <<>>)
        ELSE Decoded("ok", <<>>, steps \o <<"pointer", "as_array">>, as_array(p.v).v)

\* a decoding that parses the body as it is when the prefix is not there
DecodeLenient(body) ==
    LET stripped == strip_prefix(body, PREFIX)
        text == IF stripped.some THEN stripped.v ELSE body
        parsed == from_str(text)
    IN  IF ~parsed.ok
        THEN Decoded("err", parsed.msg, <<"strip_prefix", "from_str">>, <<>>)
        ELSE ExtractRows(parsed.v, <<"strip_prefix", "from_str">>)

\* the response body to the row array, lines 124-130
DecodeBody(body) ==
    LET stripped == strip_prefix(body, PREFIX)
    IN  IF ~stripped.some
        THEN Decoded("err", <<"invalid response">>, <<"strip_prefix">>, <<>>)
        ELSE LET parsed == from_str(stripped.v)
             IN  IF ~parsed.ok
                 THEN Decoded("err", parsed.msg, <<"strip_prefix", "from_str">>, <<>>)
                 ELSE ExtractRows(parsed.v, <<"strip_prefix", "from_str">>)

\* an outcome of a begin_scan that sets the cursor to zero on entry
OutcomeCursorReset(inst, c, out) ==
    [this |-> [inst EXCEPT !.src_idx = 0], call |-> c, io |-> out]

\* what a begin_scan leaves: the struct, the result, the effects outside
Outcome(inst, c, out) == [this |-> inst, call |-> c, io |-> out]

\* begin_scan on the struct inst with the table options opts, the transport
\* answering resp
BeginOutcome(inst, opts, resp) ==
    LET id == require(opts.spread_sheet_id, "spread_sheet_id")
        Ret(res, msg) == [Call("begin_scan", <<>>, -1, res, msg) EXCEPT !.opts = opts]
    IN  IF ~id.ok
        THEN Outcome(inst, Ret("err", id.msg), NoIo)
        ELSE
        LET req == Request(Url(inst.base_url, id.v, opts.sheet_id))
        IN  IF ~resp.ok
            THEN Outcome(inst, Ret("err", resp.msg),
                         Io(<<req>>, <<resp>>, <<>>, <<>>))
            ELSE
            LET d == DecodeBody(resp.v)
            IN  IF d.res # "ok"
                THEN Outcome(inst, Ret(d.res, d.msg),
                             Io(<<req>>, <<resp>>, d.steps, <<>>))
                ELSE Outcome([inst EXCEPT !.src_rows = d.rows],
                             Ret("ok", <<>>),
                             Io(<<req>>, <<resp>>, d.steps,
                                <<<<"We got response array length: ",
                                    ToString(Len(d.rows))>>>>))

\* the table options are read first (line 93): without spread_sheet_id the
\* routine returns before it asks the transport for anything
begin_scan ==
    /\ this # NullPtr
    /\ \E opts \in TableOptions :
       \E resp \in IF opts.spread_sheet_id.some THEN Responses
                   ELSE {Err(<<"not asked">>)} :
       \E out \in {BeginOutcome(this, opts, resp)} :
              /\ this' = out.this
              /\ call' = out.call
              /\ io' = out.io
              /\ row' = <<>>
              /\ scan' = IF out.call.res = "ok"
                         THEN Opened(Len(out.this.src_rows), ~scan.open)
                         ELSE scan

-----------------------------------------------------------------------------
(* init, lines 75-85: a fresh default struct, then the base URL.           *)

init ==
    \E opt \in ServerOptions :
       /\ this' = [Default EXCEPT !.base_url = require_or(opt, DefaultBaseUrl)]
       /\ call' = [Call("init", <<>>, -1, "ok", <<>>) EXCEPT !.opts = [base_url |-> opt]]
       /\ row' = <<>>
       /\ io' = NoIo
       /\ scan' = Closed

-----------------------------------------------------------------------------
(* iter_scan, lines 141-184.                                               *)

\* an iter_scan that moves the cursor past a row it failed to map
IterScanSkipsFailedRow(schemas) ==
    /\ this # NullPtr
    /\ io' = NoIo
    /\ IF this.src_idx >= Len(this.src_rows)
       THEN /\ call' = Call("iter_scan", <<>>, -1, "none", <<>>)
            /\ row' = <<>>
            /\ scan' = IF scan.open THEN [scan EXCEPT !.done = TRUE] ELSE scan
            /\ UNCHANGED this
       ELSE \E cols \in schemas :
            \E m \in {MapColumns(this.src_rows[this.src_idx + 1], cols, <<>>)} :
                   /\ row' = m.row
                   /\ this' = [this EXCEPT !.src_idx = this.src_idx + 1]
                   /\ IF m.err.some
                      THEN /\ call' = Call("iter_scan", cols, this.src_idx,
                                           "err", m.err.v)
                           /\ UNCHANGED scan
                      ELSE /\ call' = Call("iter_scan", cols, this.src_idx,
                                           "some", <<>>)
                           /\ scan' = IF scan.open
                                      THEN [scan EXCEPT
                                              !.got = Append(scan.got, this.src_idx)]
                                      ELSE scan

\* the columns are read from the context after the exhaustion test (line 159)
IterScan(schemas) ==
    /\ this # NullPtr
    /\ io' = NoIo
    /\ IF this.src_idx >= Len(this.src_rows)
       THEN /\ call' = Call("iter_scan", <<>>, -1, "none", <<>>)
            /\ row' = <<>>
            /\ scan' = IF scan.open THEN [scan EXCEPT !.done = TRUE] ELSE scan
            /\ UNCHANGED this
       ELSE \E cols \in schemas :
            \E m \in {MapColumns(this.src_rows[this.src_idx + 1], cols, <<>>)} :
                   /\ row' = m.row
                   /\ IF m.err.some
                      THEN /\ call' = Call("iter_scan", cols, this.src_idx,
                                           "err", m.err.v)
                           /\ UNCHANGED <<this, scan>>
                      ELSE /\ call' = Call("iter_scan", cols, this.src_idx,
                                           "some", <<>>)
                           /\ this' = [this EXCEPT !.src_idx = this.src_idx + 1]
                           /\ scan' = IF scan.open
                                      THEN [scan EXCEPT
                                              !.got = Append(scan.got, this.src_idx)]
                                      ELSE scan

\* iter_scan in a scan of the protocol specification
iter_scan == IterScan(SampleSchemas)

\* iter_scan under any schema of the bounded set
iter_scan_any == IterScan(Schemas)

-----------------------------------------------------------------------------
(* The routines of lines 188-216.                                          *)

\* a re_scan that rewinds the cursor before it reports the error
ReScanRewind ==
    /\ this # NullPtr
    /\ this' = [this EXCEPT !.src_idx = 0]
    /\ call' = Call("re_scan", <<>>, -1, "err",
                    <<"re_scan on foreign table is not supported">>)
    /\ row' = <<>>
    /\ io' = NoIo
    /\ UNCHANGED scan

re_scan ==
    /\ this # NullPtr
    /\ call' = Call("re_scan", <<>>, -1, "err",
                    <<"re_scan on foreign table is not supported">>)
    /\ row' = <<>>
    /\ io' = NoIo
    /\ UNCHANGED <<this, scan>>

\* an end_scan that rewinds the cursor and keeps the buffered rows
EndScanRewind ==
    /\ this # NullPtr
    /\ this' = [this EXCEPT !.src_idx = 0]
    /\ call' = Call("end_scan", <<>>, -1, "ok", <<>>)
    /\ row' = <<>>
    /\ io' = NoIo
    /\ scan' = Closed

\* an end_scan that drops only the last buffered row
EndScanPop ==
    /\ this # NullPtr
    /\ this' = [this EXCEPT !.src_rows =
                    IF this.src_rows = <<>> THEN <<>>
                    ELSE SubSeq(this.src_rows, 1, Len(this.src_rows) - 1)]
    /\ call' = Call("end_scan", <<>>, -1, "ok", <<>>)
    /\ row' = <<>>
    /\ io' = NoIo
    /\ scan' = Closed

\* end_scan, lines 192-196: the buffer is cleared, nothing else is written
end_scan ==
    /\ this # NullPtr
    /\ this' = [this EXCEPT !.src_rows = <<>>]
    /\ call' = Call("end_scan", <<>>, -1, "ok", <<>>)
    /\ row' = <<>>
    /\ io' = NoIo
    /\ scan' = Closed

begin_modify ==
    /\ this # NullPtr
    /\ call' = Call("begin_modify", <<>>, -1, "err",
                    <<"modify on foreign table is not supported">>)
    /\ row' = <<>>
    /\ io' = NoIo
    /\ UNCHANGED <<this, scan>>

\* an insert that drops the buffered rows
InsertClears ==
    /\ this # NullPtr
    /\ this' = [this EXCEPT !.src_rows = <<>>]
    /\ call' = Call("insert", <<>>, -1, "ok", <<>>)
    /\ row' = <<>>
    /\ io' = NoIo
    /\ UNCHANGED scan

\* insert, update, delete and end_modify return Ok(()) and touch nothing
insert ==
    /\ this # NullPtr
    /\ call' = Call("insert", <<>>, -1, "ok", <<>>)
    /\ row' = <<>>
    /\ io' = NoIo
    /\ UNCHANGED <<this, scan>>

update ==
    /\ this # NullPtr
    /\ call' = Call("update", <<>>, -1, "ok", <<>>)
    /\ row' = <<>>
    /\ io' = NoIo
    /\ UNCHANGED <<this, scan>>

delete ==
    /\ this # NullPtr
    /\ call' = Call("delete", <<>>, -1, "ok", <<>>)
    /\ row' = <<>>
    /\ io' = NoIo
    /\ UNCHANGED <<this, scan>>

end_modify ==
    /\ this # NullPtr
    /\ call' = Call("end_modify", <<>>, -1, "ok", <<>>)
    /\ row' = <<>>
    /\ io' = NoIo
    /\ UNCHANGED <<this, scan>>

-----------------------------------------------------------------------------
(* The adapter under a host that calls init first and then any routine.    *)

Init ==
    /\ this = NullPtr
    /\ call = Call("none", <<>>, -1, "ok", <<>>)
    /\ row = <<>>
    /\ io = NoIo
    /\ scan = Closed

Next ==
    \/ init
    \/ begin_scan
    \/ iter_scan
    \/ re_scan
    \/ end_scan
    \/ begin_modify
    \/ insert
    \/ update
    \/ delete
    \/ end_modify

Spec == Init /\ [][Next]_vars

-----------------------------------------------------------------------------
(* The row mapper on its own: a scan of a one-row document, under every    *)
(* schema of the bounded set.                                              *)

\* the decimals -MaxTenths/10 .. MaxTenths/10, the integers 0 .. MaxOff and
\* 2^53 .. 2^53 + MaxOff, of either sign
Numbers ==
    {NFloat(neg, k) : neg \in BOOLEAN, k \in 0..MaxTenths}
    \cup {NInt(neg, hi, lo) : neg \in BOOLEAN, hi \in {0, 1}, lo \in 0..MaxOff}

\* the cells a row is made of: a null slot, {"v": null}, a number, a string,
\* a boolean, an object without "v"
CoreCells ==
    {JNull, CellV(JNull), CellV(JNum(NFloat(FALSE, 39))), CellV(JStr("Alice")),
     CellV(JBool(TRUE)), CellF("x")}

MapperRows ==
    {SrcRow(cells) : cells \in UNION {[1..k -> CoreCells] : k \in 0..MaxCells}}
    \cup {SrcRow(<<CellV(JNum(n))>>) : n \in Numbers}
    \cup {JNull}

InitMapper ==
    \E r \in MapperRows :
       LET out == BeginOutcome([Default EXCEPT !.base_url = DefaultBaseUrl],
                               [spread_sheet_id |-> Some("abc123"), sheet_id |-> None],
                               Ok(Body(PREFIX, JsonText(DocRows(<<r>>)))))
       IN  /\ this = out.this
           /\ call = out.call
           /\ io = out.io
           /\ row = <<>>
           /\ scan = Opened(1, TRUE)

\* the first iter_scan of the scan: the mapper applied to the row once
NextMapper == call.op = "begin_scan" /\ iter_scan_any

SpecMapper == InitMapper /\ [][NextMapper]_vars

-----------------------------------------------------------------------------
(* Vocabulary of the properties.                                           *)

\* the last call was an iter_scan that mapped a source row
Mapping == call.op = "iter_scan" /\ call.at >= 0

\* the source row the last iter_scan mapped, and the columns it was given
MappedRow == this.src_rows[call.at + 1]
Cols == call.cols
Positions == 1..Len(call.cols)

\* the cell array of a source row
CellsOf(src_row) ==
    IF src_row.t = "obj" /\ "c" \in DOMAIN src_row.o /\ src_row.o["c"].t = "arr"
    THEN src_row.o["c"].a ELSE <<>>

\* the source cell of the column at position i of the schema
Missing(i) == Cols[i].num > Len(CellsOf(MappedRow))
SrcCell(i) == CellsOf(MappedRow)[Cols[i].num]
NullSlot(i) == ~Missing(i) /\ SrcCell(i) = JNull
HasV(i) == ~Missing(i) /\ SrcCell(i).t = "obj" /\ "v" \in DOMAIN SrcCell(i).o
ValueOf(i) == SrcCell(i).o["v"]
VNull(i) == HasV(i) /\ ValueOf(i) = JNull

Unsupported(i) == Cols[i].type_oid \notin {"I64", "String"}
UnsupportedMsg(i) == <<"column ", Cols[i].name, " data type is not supported">>

\* the iter_scan failed at the column at position i
FailedAt(i) == call.res = "err" /\ Len(row) = i - 1

\* a column of unsupported type whose source cell has a "v" member
Aborting(i) == Unsupported(i) /\ HasV(i)

\* a cell of the wrong scalar shape for a supported column type
Mismatch(i) ==
    /\ HasV(i)
    /\ \/ Cols[i].type_oid = "I64" /\ ValueOf(i).t \in {"str", "bool"}
       \/ Cols[i].type_oid = "String" /\ ValueOf(i).t \in {"num", "bool"}

\* the row array of the document the last begin_scan fetched
FetchedRows(out) == out.resp[1].v.text.v.o["table"].o["rows"].a

-----------------------------------------------------------------------------
(* C1: after end_scan, a successful begin_scan leaves the buffer equal to  *)
(* the newly fetched row array and the cursor at zero.                     *)
C1_EndThenBeginResetsCursor ==
    [][(call.op = "end_scan" /\ call'.op = "begin_scan" /\ call'.res = "ok")
          => (this'.src_rows = FetchedRows(io') /\ this'.src_idx = 0)]_vars

(* C2: a scan whose begin_scan fetched n rows (the scan before it, if any, *)
(* ended) is handed exactly the source rows 0 .. n-1, in order, before     *)
(* iter_scan returns None.                                                 *)
C2_ScanDeliversEveryRowOnce ==
    (scan.open /\ scan.fresh /\ scan.done)
        => scan.got = [k \in 1..scan.n |-> k - 1]

(* C3: 0 <= cursor <= len(buffer) in every state, and iter_scan reports    *)
(* exhaustion exactly when cursor = len(buffer).                           *)
C3_CursorWithinBuffer ==
    this # NullPtr =>
        /\ 0 <= this.src_idx
        /\ this.src_idx <= Len(this.src_rows)
        /\ (call.op = "iter_scan" /\ call.res = "none")
              => this.src_idx = Len(this.src_rows)

(* C4: end_scan in any state returns success and leaves the buffer empty   *)
(* and the cursor at zero.                                                 *)
C4_EndClearsBufferAndCursor ==
    call.op = "end_scan" =>
        /\ call.res = "ok"
        /\ this.src_rows = <<>>
        /\ this.src_idx = 0

(* C5: re_scan in any state returns the not-supported error and leaves the *)
(* base URL, the row buffer and the cursor as they were.                   *)
C5_ReScanFailsAndKeepsState ==
    [][call'.op = "re_scan"
          => /\ call'.res = "err"
             /\ call'.msg = <<"re_scan on foreign table is not supported">>
             /\ this' = this]_vars

\* a re_scan in the middle of a scan
C5_Witness ==
    /\ call.op = "re_scan"
    /\ this.src_idx > 0
    /\ this.src_idx < Len(this.src_rows)
    /\ this.base_url # DefaultBaseUrl

(* C6, as claimed: a schema with a column of unsupported type makes        *)
(* iter_scan fail with the error naming such a column, whatever cell sits  *)
(* at that column's position.                                              *)
C6_UnsupportedTypeAlwaysFails ==
    (Mapping /\ \E i \in Positions : Unsupported(i)) =>
        /\ call.res = "err"
        /\ \E i \in Positions : Unsupported(i) /\ call.msg = UnsupportedMsg(i)

(* C6, amended: iter_scan fails exactly when some column of unsupported    *)
(* type has a source cell with a "v" member (null included), at the first  *)
(* such column of the schema and naming it, whatever the other columns     *)
(* hold; an unsupported column whose cell is missing, a null slot or an    *)
(* object without "v" yields an absent target cell.                        *)
C6_UnsupportedTypeFailsOnPresentCell ==
    Mapping =>
        IF \E i \in Positions : Aborting(i)
        THEN LET f == CHOOSE i \in Positions :
                         Aborting(i) /\ \A j \in 1..(i - 1) : ~Aborting(j)
             IN  /\ FailedAt(f)
                 /\ call.msg = UnsupportedMsg(f)
                 /\ this.src_idx = call.at
        ELSE /\ call.res = "some"
             /\ Len(row) = Len(Cols)
             /\ \A i \in Positions : Unsupported(i) => row[i] = None

\* a two-column schema whose second column is unsupported and holds
\* {"v": null}, after a first column that maps to an absent cell
C6_Witness ==
    /\ Mapping
    /\ Len(Cols) = 2
    /\ ~Unsupported(1) /\ Mismatch(1)
    /\ Unsupported(2) /\ VNull(2)
    /\ FailedAt(2)

(* C7, as claimed: for every target type, a source cell that is missing, a *)
(* null slot or {"v": null} maps to an absent target cell, and iter_scan   *)
(* does not fail at that column.                                           *)
C7_AbsentCellNeverFails ==
    Mapping =>
        \A i \in Positions :
            (Missing(i) \/ NullSlot(i) \/ VNull(i)) =>
                /\ ~FailedAt(i)
                /\ (i <= Len(row) => row[i] = None)

(* C7, amended: a missing cell or a null slot maps to an absent target     *)
(* cell for every target type, and {"v": null} does so for the Integer and *)
(* Text types; {"v": null} under any other type fails the iter_scan with   *)
(* the unsupported-type error of that column.                              *)
C7_AbsentCellByType ==
    Mapping =>
        \A i \in Positions :
            /\ (Missing(i) \/ NullSlot(i) \/ (VNull(i) /\ ~Unsupported(i))) =>
                  /\ ~FailedAt(i)
                  /\ (i <= Len(row) => row[i] = None)
                  /\ (call.res = "some" => i <= Len(row))
            /\ (VNull(i) /\ Unsupported(i) /\ \A j \in 1..(i - 1) : ~Aborting(j)) =>
                  /\ FailedAt(i)
                  /\ call.msg = UnsupportedMsg(i)

\* a delivered row with a null slot under an unsupported type next to a
\* {"v": null} under a supported one
C7_Witness ==
    /\ Mapping
    /\ call.res = "some"
    /\ \E i, j \in Positions :
          /\ Unsupported(i) /\ NullSlot(i)
          /\ ~Unsupported(j) /\ VNull(j)
          /\ row[i] = None /\ row[j] = None

(* C8: a cell of the wrong scalar shape for an Integer or Text column      *)
(* never aborts the scan: iter_scan fails only at a column of unsupported  *)
(* type, and otherwise succeeds with that cell absent, the cells of the    *)
(* right shape delivered and the cursor advanced by one.                   *)
C8_MismatchYieldsAbsentCell ==
    (Mapping /\ \E i \in Positions : Mismatch(i)) =>
        /\ \A i \in Positions : Mismatch(i) => ~FailedAt(i)
        /\ call.res = "err" => \E j \in Positions : Aborting(j) /\ FailedAt(j)
        /\ (\A j \in Positions : ~Aborting(j)) =>
              /\ call.res = "some"
              /\ Len(row) = Len(Cols)
              /\ this.src_idx = call.at + 1
              /\ \A i \in Positions :
                    /\ Mismatch(i) => row[i] = None
                    /\ (HasV(i) /\ Cols[i].type_oid = "String"
                              /\ ValueOf(i).t = "str")
                          => row[i] = Some(CellString(ValueOf(i).s))
                    /\ (HasV(i) /\ Cols[i].type_oid = "I64"
                              /\ ValueOf(i).t = "num")
                          => (row[i].some /\ row[i].v.t = "I64")

\* a delivered row whose first cell is a mismatch and whose second is not
C8_Witness ==
    /\ Mapping
    /\ call.res = "some"
    /\ Len(Cols) = 2
    /\ Mismatch(1) /\ row[1] = None
    /\ row[2] # None
    /\ this.src_idx = call.at + 1

\* sign(v) * floor(|v|) of a JSON number
TruncatedTowardZero(n) ==
    IF n.k = "Float" THEN Int64(n.neg, 0, n.tenths \div 10)
    ELSE Int64(n.neg, n.hi, n.lo)

\* an Integer column over a numeric cell
NumericToInteger(i) ==
    Cols[i].type_oid = "I64" /\ HasV(i) /\ ValueOf(i).t = "num"

(* C9, as claimed: a numeric value v under an Integer column yields        *)
(* sign(v) * floor(|v|), for every v of the range.                         *)
C9_IntegerIsTruncatedValue ==
    (Mapping /\ call.res = "some") =>
        \A i \in Positions :
            NumericToInteger(i) =>
                row[i] = Some(CellI64(TruncatedTowardZero(ValueOf(i).n)))

(* C9, amended: the value is taken as the nearest 64-bit float and that    *)
(* float is truncated toward zero: sign(v) * floor(|v|) for every decimal  *)
(* and every integer below 2^53 and for the even integers above; an odd    *)
(* integer above 2^53 yields the neighbouring integer the float holds.     *)
C9_IntegerIsTruncatedDouble ==
    (Mapping /\ call.res = "some") =>
        \A i \in Positions :
            NumericToInteger(i) =>
                LET n == ValueOf(i).n
                IN  /\ row[i].some
                    /\ row[i].v.t = "I64"
                    /\ IF n.k = "Float" \/ n.hi = 0 \/ n.lo % 2 = 0
                       THEN row[i].v.i = TruncatedTowardZero(n)
                       ELSE /\ row[i].v.i.neg = n.neg
                            /\ row[i].v.i.hi = n.hi
                            /\ row[i].v.i.lo \in {n.lo - 1, n.lo + 1}
                            /\ (row[i].v.i.lo \div 2) % 2 = 0

\* -3.9 under an Integer column delivered as -3
C9_Witness ==
    /\ Mapping
    /\ call.res = "some"
    /\ Cols = <<Column(1, "I64")>>
    /\ HasV(1)
    /\ ValueOf(1) = JNum(NFloat(TRUE, 39))
    /\ row = <<Some(CellI64(Int64(TRUE, 0, 3)))>>

\* the body starts with the five characters of the prefix
HasPrefix(body) ==
    /\ Len(body.head) >= 5
    /\ body.head[1] = ")" /\ body.head[2] = "]" /\ body.head[3] = "}"
    /\ body.head[4] = "'" /\ body.head[5] = "\n"

\* the last call was a begin_scan that fetched a body without the prefix
FetchedWithoutPrefix ==
    /\ call.op = "begin_scan"
    /\ io.resp # <<>>
    /\ io.resp[1].ok
    /\ ~HasPrefix(io.resp[1].v)

(* C10: a fetched body that does not start with the prefix makes           *)
(* begin_scan fail with the invalid-response error before the body is      *)
(* parsed and before the rows are looked up.                               *)
C10_NoPrefixFailsBeforeParse ==
    FetchedWithoutPrefix =>
        /\ call.res = "err"
        /\ call.msg = <<"invalid response">>
        /\ \A k \in 1..Len(io.steps) :
              io.steps[k] \notin {"from_str", "pointer", "as_array"}

\* a body without the prefix that is valid JSON with a row array
C10_Witness ==
    /\ FetchedWithoutPrefix
    /\ io.resp[1].v.head = <<>>
    /\ io.resp[1].v.text = JsonText(DocRows(<<RowAlice>>))
    /\ call.res = "err"

-----------------------------------------------------------------------------
\* the last call was a begin_scan that fetched a body made of the prefix and
\* the text of a JSON value
FetchedJson ==
    /\ call.op = "begin_scan"
    /\ io.resp # <<>>
    /\ io.resp[1].ok
    /\ io.resp[1].v.head = <<")", "]", "}", "'", "\n">>
    /\ io.resp[1].v.text.k = "json"

FetchedDoc == io.resp[1].v.text.v

\* the document has a member "rows" inside a member "table"
RowsPresent(doc) ==
    /\ doc.t = "obj"
    /\ "table" \in DOMAIN doc.o
    /\ doc.o["table"].t = "obj"
    /\ "rows" \in DOMAIN doc.o["table"].o

RowsNotArray(doc) == RowsPresent(doc) /\ doc.o["table"].o["rows"].t # "arr"

(* C11: a fetched body with the prefix and valid JSON whose table.rows is  *)
(* absent, or present and not an array, makes begin_scan return the        *)
(* missing-rows error as an ordinary error result.                         *)
C11_NoRowArrayIsMissingRowsError ==
    (FetchedJson /\ (~RowsPresent(FetchedDoc) \/ RowsNotArray(FetchedDoc))) =>
        /\ call.res = "err"
        /\ call.msg = <<"cannot get rows from response">>

-----------------------------------------------------------------------------
\* the URL of the first request of the call, and the GET requests it sent
UrlSent(out) == out.req[1].url
Gets(out) == {k \in 1..Len(out.req) : out.req[k].method = "Get"}

\* the base URL an init call configures from its server options
Configured(c) ==
    IF c.opts.base_url.some THEN c.opts.base_url.v
    ELSE "https://docs.google.com/spreadsheets/d"

(* C12: a begin_scan given a spread_sheet_id sends a single GET request,   *)
(* to {base_url}/{id}/gviz/tq?tqx=out:json when no sheet_id is given and   *)
(* to {base_url}/{id}/gviz/tq?gid={sheet_id}&tqx=out:json when one is,     *)
(* where base_url is the value init configured (the Google default when    *)
(* the server option is absent), kept by every other routine.              *)
C12_RequestUrl ==
    [][/\ call'.op = "init" => this'.base_url = Configured(call')
       /\ (call'.op # "init" /\ this # NullPtr) => this'.base_url = this.base_url
       /\ (call'.op = "begin_scan" /\ call'.opts.spread_sheet_id.some) =>
             /\ Len(io'.req) = 1
             /\ Gets(io') = {1}
             /\ UrlSent(io') =
                  IF call'.opts.sheet_id.some
                  THEN <<this.base_url, "/", call'.opts.spread_sheet_id.v,
                         "/gviz/tq?gid=", call'.opts.sheet_id.v, "&tqx=out:json">>
                  ELSE <<this.base_url, "/", call'.opts.spread_sheet_id.v,
                         "/gviz/tq?tqx=out:json">>]_vars

\* a begin_scan with a sheet_id under a configured base URL
C12_Witness ==
    /\ call.op = "begin_scan"
    /\ call.opts.sheet_id = Some("2")
    /\ call.opts.spread_sheet_id = Some("abc123")
    /\ this.base_url = "http://localhost:8080"
    /\ Len(io.req) = 1
    /\ UrlSent(io) = <<"http://localhost:8080", "/", "abc123", "/gviz/tq?gid=",
                       "2", "&tqx=out:json">>

-----------------------------------------------------------------------------
(* C13: insert, update and delete return success and leave the base URL,   *)
(* the buffer and the cursor as they were, so an open scan still has the   *)
(* same rows to deliver.                                                   *)
C13_WritesAreNoOps ==
    [][call'.op \in {"insert", "update", "delete"} =>
          /\ call'.res = "ok"
          /\ this'.base_url = this.base_url
          /\ this'.src_rows = this.src_rows
          /\ this'.src_idx = this.src_idx
          /\ scan' = scan]_vars

\* an insert in the middle of a scan: one row delivered, one still to come
C13_Witness ==
    /\ call.op = "insert"
    /\ call.res = "ok"
    /\ scan.open
    /\ this.src_idx = 1
    /\ Len(this.src_rows) = 2

-----------------------------------------------------------------------------
\* the target cell that the source cell of the column at position i gives
CellFrom(i) ==
    IF ~HasV(i) THEN None
    ELSE IF Cols[i].type_oid = "I64" /\ ValueOf(i).t = "num"
    THEN Some(CellI64(F64AsI64(NumberAsF64(ValueOf(i).n))))
    ELSE IF Cols[i].type_oid = "String" /\ ValueOf(i).t = "str"
    THEN Some(CellString(ValueOf(i).s))
    ELSE None

(* C14: a successful iter_scan delivers one target cell per column of the  *)
(* schema, in the order of the schema, and the cell of the column with     *)
(* ordinal position p is derived from the source cell at index p - 1 and   *)
(* from no other, whatever the order and the subset of the columns.        *)
C14_OneCellPerColumnByPosition ==
    (Mapping /\ call.res = "some") =>
        /\ Len(row) = Len(Cols)
        /\ \A i \in Positions : row[i] = CellFrom(i)

\* the two columns asked for in reverse order
C14_Witness ==
    /\ Mapping
    /\ call.res = "some"
    /\ Cols = <<Column(2, "String"), Column(1, "I64")>>
    /\ CellsOf(MappedRow) = <<CellV(JNum(NFloat(FALSE, 39))), CellV(JStr("Alice"))>>
    /\ row = <<Some(CellString("Alice")), Some(CellI64(Int64(FALSE, 0, 3)))>>

-----------------------------------------------------------------------------
(* C15: end_scan returns success, and an end_scan that follows an end_scan *)
(* leaves the adapter in the state the first one left it in.               *)
C15_EndIsIdempotent ==
    [][call'.op = "end_scan" =>
          /\ call'.res = "ok"
          /\ call.op = "end_scan" =>
                /\ call.res = "ok"
                /\ this' = this
                /\ scan' = scan]_vars

\* the adapter after end_scan on a scan that had rows left to deliver
C15_Witness ==
    /\ call.op = "end_scan"
    /\ call.res = "ok"
    /\ this.src_rows = <<>>
    /\ this.src_idx = 1
    /\ ~scan.open

-----------------------------------------------------------------------------
\* no successful begin_scan since the last None of iter_scan, since the last
\* end_scan, or since init
Terminal == ~scan.open \/ scan.done

(* C16: once iter_scan has returned None, and also after end_scan and      *)
(* before any begin_scan, every iter_scan returns None and changes neither *)
(* the buffer nor the cursor, until the next successful begin_scan.        *)
C16_TerminalSignalIsStable ==
    [][(this # NullPtr /\ Terminal /\ call'.op = "iter_scan") =>
          /\ call'.res = "none"
          /\ row' = <<>>
          /\ this'.src_rows = this.src_rows
          /\ this'.src_idx = this.src_idx]_vars

\* None at the end of a scan that delivered both of its rows
C16_Witness ==
    /\ call.op = "iter_scan"
    /\ call.res = "none"
    /\ scan.open
    /\ scan.done
    /\ scan.got = <<0, 1>>
    /\ Len(this.src_rows) = 2

-----------------------------------------------------------------------------
(* C17: while a scan is open (its begin_scan succeeded, its end_scan has   *)
(* not been called) no routine changes the buffer: iter_scan moves the     *)
(* cursor by one at most, and a begin_scan of a second scan replaces       *)
(* neither the buffer nor the rows the first scan has still to receive.    *)
C17_OpenScanKeepsItsBuffer ==
    [][(scan.open /\ call'.op \notin {"end_scan", "init"}) =>
          /\ this'.src_rows = this.src_rows
          /\ call'.op = "iter_scan" =>
                this'.src_idx \in {this.src_idx, this.src_idx + 1}
          /\ call'.op # "iter_scan" => this'.src_idx = this.src_idx]_vars

-----------------------------------------------------------------------------
(* C18: a begin_scan that fails, for whatever reason, leaves the buffer    *)
(* and the cursor as they were before the call; when spread_sheet_id is    *)
(* missing it fails before any HTTP request is sent.                       *)
C18_FailedBeginKeepsState ==
    [][(call'.op = "begin_scan" /\ call'.res # "ok") =>
          /\ this'.src_rows = this.src_rows
          /\ this'.src_idx = this.src_idx
          /\ ~call'.opts.spread_sheet_id.some =>
                /\ call'.res = "err"
                /\ io'.req = <<>>
                /\ io'.resp = <<>>]_vars

\* a begin_scan without spread_sheet_id in the middle of a scan
C18_Witness ==
    /\ call.op = "begin_scan"
    /\ call.res = "err"
    /\ ~call.opts.spread_sheet_id.some
    /\ io.req = <<>>
    /\ this.src_idx = 1
    /\ Len(this.src_rows) = 2

-----------------------------------------------------------------------------
(* C19: an iter_scan that fails with the unsupported-column-type error     *)
(* changes neither the cursor nor the buffer and counts no row as          *)
(* delivered; an iter_scan that follows it with the same schema fails      *)
(* again, with the same error, on the same source row.                     *)
C19_FailedIterateKeepsCursor ==
    [][/\ (call'.op = "iter_scan" /\ call'.res = "err") =>
             /\ this'.src_rows = this.src_rows
             /\ this'.src_idx = this.src_idx
             /\ call'.at = this'.src_idx
             /\ scan'.got = scan.got
       /\ (/\ call.op = "iter_scan" /\ call.res = "err"
           /\ call'.op = "iter_scan" /\ call'.cols = call.cols) =>
             /\ call'.res = "err"
             /\ call'.msg = call.msg
             /\ call'.at = call.at]_vars

\* the second row of a scan fails on a boolean column
C19_Witness ==
    /\ call.op = "iter_scan"
    /\ call.res = "err"
    /\ call.cols = <<Column(2, "Bool")>>
    /\ call.msg = <<"column ", "name", " data type is not supported">>
    /\ call.at = 1
    /\ this.src_idx = 1
    /\ Len(this.src_rows) = 2
    /\ scan.open
    /\ scan.got = <<0>>

====
